---- MODULE Spec2Model ----
(***************************************************************************)
(* A model of check_recovCls.py: the configuration reader                   *)
(* (search_flask_args), the output-folder manager (create_output_folder),   *)
(* the two dictionary loaders, the ell-range reconciliation and the run of  *)
(* main.  Text is modelled as sequences of one-character strings so that    *)
(* the string operations of the code (split, rstrip, replace, substring     *)
(* test, path joins) are computed as the code computes them.                *)
(***************************************************************************)
EXTENDS Integers, Sequences, FiniteSets, TLC

VARIABLES
    sfaFile,      \* search_flask_args: the lines of the file read (text)
    sfaForm,      \* for each of those lines, the KEY, VALUE and comment it was written from
    sfaArgName,   \* search_flask_args: the argName parameter
    sfaPc,        \* "off" | "call" | "returned" | "raised"
    sfaArgs,      \* the local `args` of line 58 (the Unbound marker when never assigned)
    sfaRet,       \* what the call gave back: [kind, val, exc]
    fsDirs,       \* file system: the directories that exist (absolute, as component lists)
    fsWritable,   \* file system: the directories in which an entry may be created
    fsFiles,      \* file system: the paths that are regular files
    cwd,          \* the process's current working directory (component list)
    config,       \* the path of the configuration file, as given on the command line
    cofRets,      \* create_output_folder: the outcome of each call so far, in order
    cfgLines,     \* the lines of the configuration file (text, each ending in a newline)
    fsData,       \* file system: the content of each data file, by location
    pc,           \* where the run of main is
    termination,  \* "" while running, then "normal", "SystemExit" or the exception's name
    exitStatus,   \* the process's exit status, -1 while running
    stdout,       \* the diagnostics printed so far
    recovClsDict, \* main's recovClsDict
    inputClsDict, \* main's inputClsDict
    hdrFields,    \* the field names the RecovCls header line was written from
    sameRange,    \* what check_ell_range returned at line 175
    ell_vec,      \* plot_recov_vs_input's ell_vec
    pixWin2,      \* plot_recov_vs_input's pixWin2
    todo,         \* plot_recov_vs_input: the keys its loop has still to visit
    figures       \* the fields whose figure was shown, in order

sfaVars == <<sfaFile, sfaForm, sfaArgName, sfaPc, sfaArgs, sfaRet>>
fsVars  == <<fsDirs, fsWritable, fsFiles, cwd>>
cofVars == <<config, cofRets>>
runVars == <<cfgLines, fsData, pc, termination, exitStatus, stdout, recovClsDict,
             inputClsDict, hdrFields, sameRange, ell_vec, pixWin2, todo, figures>>

vars == <<sfaVars, fsVars, cofVars, runVars>>

(***************************************************************************)
(* Python string operations on sequences of characters.                    *)
(***************************************************************************)

\* Characters str.rstrip() with no argument removes.
Whitespace == {" ", "\t", "\n", "\r"}

\* `sub in s` of Python.
Contains(s, sub) ==
    \E i \in 0..(Len(s) - Len(sub)) : SubSeq(s, i + 1, i + Len(sub)) = sub

\* s.startswith(p)
StartsWith(s, p) == Len(s) >= Len(p) /\ SubSeq(s, 1, Len(p)) = p

\* s.rstrip()
RECURSIVE Rstrip(_)
Rstrip(s) ==
    IF s # <<>> /\ s[Len(s)] \in Whitespace
    THEN Rstrip(SubSeq(s, 1, Len(s) - 1))
    ELSE s

\* s.split(c): the list of the pieces between the occurrences of c (never empty).
RECURSIVE Split(_, _)
Split(s, c) ==
    IF \A i \in 1..Len(s) : s[i] # c
    THEN <<s>>
    ELSE LET i == CHOOSE k \in 1..Len(s) : s[k] = c /\ \A j \in 1..(k - 1) : s[j] # c
         IN  <<SubSeq(s, 1, i - 1)>> \o Split(SubSeq(s, i + 1, Len(s)), c)

\* s.replace(old, ""): every non-overlapping occurrence, left to right.
RECURSIVE Remove(_, _)
Remove(s, old) ==
    IF Len(s) < Len(old) \/ s = <<>>
    THEN s
    ELSE IF StartsWith(s, old)
         THEN Remove(SubSeq(s, Len(old) + 1, Len(s)), old)
         ELSE <<s[1]>> \o Remove(Tail(s), old)

(***************************************************************************)
(* search_flask_args                                                        *)
(***************************************************************************)

Unbound == <<"<unbound>">>

RetStr(v)   == [kind |-> "str",   val |-> v,    exc |-> ""]
RetNone     == [kind |-> "None",  val |-> <<>>, exc |-> ""]
Raise(e)    == [kind |-> "raise", val |-> <<>>, exc |-> e]

\* Line 57: the index of the first line that contains argName, 0 when none does.
FirstMatch(lines, argName) ==
    IF \E i \in 1..Len(lines) : Contains(lines[i], argName)
    THEN CHOOSE i \in 1..Len(lines) :
            /\ Contains(lines[i], argName)
            /\ \A j \in 1..(i - 1) : ~Contains(lines[j], argName)
    ELSE 0

\* Line 58, the part after the index: rstrip, drop spaces, drop tabs, cut at '#'.
CleanValue(piece) ==
    Split(Remove(Remove(Rstrip(piece), <<" ">>), <<"\t">>), "#")[1]

\* Line 58: line.split(':')[1]....  Defined when the line has a ':'.
ExtractArgs(line) == CleanValue(Split(line, ":")[2])

\* A variant of the test of line 61 that compares the whole value.
IsNotGivenWhole(args) == args = <<"0">>

\* Line 61: the "not given" test.
IsNotGiven(args) == args[1] = "0"

\* Lines 54-65.  Gives [args, ret]: the local and the outcome.
SearchFlaskArgs(lines, argName) ==
    LET i == FirstMatch(lines, argName) IN
    IF i = 0
    THEN [args |-> Unbound, ret |-> Raise("UnboundLocalError")]
    ELSE IF Len(Split(lines[i], ":")) < 2
    THEN [args |-> Unbound, ret |-> Raise("IndexError")]
    ELSE LET args == ExtractArgs(lines[i]) IN
         IF args = <<>>
         THEN [args |-> args, ret |-> Raise("IndexError")]
         ELSE IF IsNotGiven(args)
         THEN [args |-> args, ret |-> RetNone]
         ELSE [args |-> args, ret |-> RetStr(args)]

(***************************************************************************)
(* os.path (posixpath) and the file system                                  *)
(***************************************************************************)

\* The index of the last c in s, 0 when there is none (str.rfind + 1).
LastIndex(s, c) ==
    IF \E i \in 1..Len(s) : s[i] = c
    THEN CHOOSE i \in 1..Len(s) : s[i] = c /\ \A j \in (i + 1)..Len(s) : s[j] # c
    ELSE 0

\* s.rstrip('/')
RECURSIVE RstripSlash(_)
RstripSlash(s) ==
    IF s # <<>> /\ s[Len(s)] = "/" THEN RstripSlash(SubSeq(s, 1, Len(s) - 1)) ELSE s

\* os.path.dirname
DirName(p) ==
    LET head == SubSeq(p, 1, LastIndex(p, "/")) IN
    IF head # <<>> /\ \E i \in 1..Len(head) : head[i] # "/"
    THEN RstripSlash(head)
    ELSE head

\* os.path.basename
BaseName(p) == SubSeq(p, LastIndex(p, "/") + 1, Len(p))

\* os.path.splitext(p)[0]: cut at the last '.', unless the name has only leading dots.
SplitExtRoot(p) ==
    LET sep == LastIndex(p, "/")
        dot == LastIndex(p, ".")
    IN  IF dot > sep /\ \E i \in (sep + 1)..(dot - 1) : p[i] # "."
        THEN SubSeq(p, 1, dot - 1)
        ELSE p

\* os.path.join(a, b): an absolute b discards a.
PathJoin(a, b) ==
    IF StartsWith(b, <<"/">>) THEN b
    ELSE IF a = <<>> \/ a[Len(a)] = "/" THEN a \o b
    ELSE a \o <<"/">> \o b

\* The components of a path text, without the empty and the "." ones.
Components(p) ==
    SelectSeq(Split(p, "/"), LAMBDA c : c # <<>> /\ c # <<".">>)

\* The absolute location a path text names for a process whose directory is wd.
Resolve(wd, p) ==
    IF StartsWith(p, <<"/">>) THEN Components(p) ELSE wd \o Components(p)

Parent(loc) == SubSeq(loc, 1, Len(loc) - 1)

\* os.path.isdir
IsDir(dirs, wd, p) == Resolve(wd, p) \in dirs

\* Whether os.mkdir(p) succeeds: the parent exists and is writable, p is free.
CanMkdir(dirs, writable, files, wd, p) ==
    LET loc == Resolve(wd, p) IN
    /\ loc # <<>>
    /\ loc \notin dirs
    /\ loc \notin files
    /\ Parent(loc) \in dirs
    /\ Parent(loc) \in writable

(***************************************************************************)
(* create_output_folder                                                     *)
(***************************************************************************)

FolderPrefix ==
    <<"/", "c", "h", "e", "c", "k", "_", "R", "e", "c", "o", "v", "C", "l", "s", "-">>

\* Lines 26-30.
NewFolderName(cfg) == FolderPrefix \o SplitExtRoot(BaseName(cfg))
NewFolder(cfg) == PathJoin(DirName(cfg), NewFolderName(cfg))

\* Line 41.
FallbackFolder(cfg) == <<".">> \o NewFolderName(cfg)

\* Line 32: the folder is reused when it is there.
FolderExists(dirs, wd, p) == IsDir(dirs, wd, p)

\* A variant of line 42 that never finds the fallback folder.
FallbackNeverExists(dirs, wd, p) == FALSE

\* Line 42: the same test for the fallback folder.
FallbackExists(dirs, wd, p) == IsDir(dirs, wd, p)

\* Lines 26-47.  Gives the outcome and the directories afterwards.
CreateOutputFolder(cfg, dirs, writable, files, wd) ==
    LET first == NewFolder(cfg)
        second == FallbackFolder(cfg)
    IN  IF FolderExists(dirs, wd, first)
        THEN [ret |-> RetStr(first), dirs |-> dirs]
        ELSE IF CanMkdir(dirs, writable, files, wd, first)
        THEN [ret |-> RetStr(first), dirs |-> dirs \cup {Resolve(wd, first)}]
        ELSE IF FallbackExists(dirs, wd, second)
        THEN [ret |-> RetStr(second), dirs |-> dirs]
        ELSE IF CanMkdir(dirs, writable, files, wd, second)
        THEN [ret |-> RetStr(second), dirs |-> dirs \cup {Resolve(wd, second)}]
        ELSE [ret |-> Raise("OSError"), dirs |-> dirs]

(***************************************************************************)
(* Python dicts (insertion ordered) as sequences of [k, v] entries          *)
(***************************************************************************)

\* keys() is taken in insertion order, as Python 3.7 and later give it.

EmptyDict == <<>>

DictKeys(d) == [i \in 1..Len(d) |-> d[i].k]

DictHas(d, key) == \E i \in 1..Len(d) : d[i].k = key

DictGet(d, key) == d[CHOOSE i \in 1..Len(d) : d[i].k = key].v

\* d[key] = val: an existing key keeps its place.
DictSet(d, key, val) ==
    IF DictHas(d, key)
    THEN [i \in 1..Len(d) |-> IF d[i].k = key THEN [k |-> key, v |-> val] ELSE d[i]]
    ELSE Append(d, [k |-> key, v |-> val])

(***************************************************************************)
(* Configuration keys and file names                                        *)
(***************************************************************************)

RECOVCLS_OUT == <<"R", "E", "C", "O", "V", "C", "L", "S", "_", "O", "U", "T">>
CL_PREFIX    == <<"C", "L", "_", "P", "R", "E", "F", "I", "X">>
NSIDE        == <<"N", "S", "I", "D", "E">>
APPLY_PIXWIN == <<"A", "P", "P", "L", "Y", "_", "P", "I", "X", "W", "I", "N">>
DotDat       == <<".", "d", "a", "t">>
ClDash       == <<"C", "l", "-">>
EllKey       == <<"l">>

\* get_config_path, lines 71-72.
GetConfigPath(cfg) == DirName(cfg)

\* Lines 88-91 and 125-128: an absolute value is kept, another is joined to the directory.
ResolveFromConfig(cfg, value) ==
    IF value[1] = "/" THEN value ELSE PathJoin(GetConfigPath(cfg), value)

(***************************************************************************)
(* get_recov_cls_dict                                                       *)
(***************************************************************************)

Column(matrix, j) == [i \in 1..Len(matrix) |-> matrix[i][j]]

\* Line 95 and the iteration over RecovCls.T of line 106.  loadtxt squeezes a
\* one-row or one-column table to one dimension, and iterating that gives its
\* scalars; a 1x1 table is a 0-d array, which cannot be iterated.
TransposedItems(matrix) ==
    LET rows == Len(matrix)
        cols == Len(matrix[1])
    IN  IF rows = 1 /\ cols = 1 THEN <<>>
        ELSE IF rows = 1 THEN [j \in 1..cols |-> <<matrix[1][j]>>]
        ELSE IF cols = 1 THEN [i \in 1..rows |-> <<matrix[i][1]>>]
        ELSE [j \in 1..cols |-> Column(matrix, j)]

\* Line 100: the names of the header line.
HeaderNames(line) == Split(Rstrip(Remove(line, ClDash)), " ")

\* Line 101: list.remove('#') drops the first '#' entry.
RemoveHash(names) ==
    LET i == CHOOSE k \in 1..Len(names) :
                names[k] = <<"#">> /\ \A j \in 1..(k - 1) : names[j] # <<"#">>
    IN  SubSeq(names, 1, i - 1) \o SubSeq(names, i + 1, Len(names))

\* Lines 104-107: zip stops at the shorter of the two.
RECURSIVE ZipIntoDict(_, _, _)
ZipIntoDict(d, names, items) ==
    IF names = <<>> \/ items = <<>>
    THEN d
    ELSE ZipIntoDict(DictSet(d, Head(names), Head(items)), Tail(names), Tail(items))

Ok(d)        == [kind |-> "ok",    dict |-> d,         exc |-> "", msg |-> ""]
Exits(m)     == [kind |-> "exit",  dict |-> EmptyDict, exc |-> "SystemExit", msg |-> m]
Fails(e)     == [kind |-> "raise", dict |-> EmptyDict, exc |-> e,  msg |-> ""]

\* Lines 95-109, for the file found at line 93.
RecovDictOfFile(file) ==
    LET names == HeaderNames(file.header) IN
    IF \A k \in 1..Len(names) : names[k] # <<"#">>
    THEN Fails("ValueError")
    ELSE IF Len(file.matrix) = 1 /\ Len(file.matrix[1]) = 1
    THEN Fails("TypeError")
    ELSE Ok(ZipIntoDict(EmptyDict, RemoveHash(names), TransposedItems(file.matrix)))

\* Lines 79-109.
GetRecovClsDict(cfg, lines, files, data, wd) ==
    LET found == SearchFlaskArgs(lines, RECOVCLS_OUT).ret IN
    IF found.kind = "raise" THEN Fails(found.exc)
    ELSE IF found.kind = "None" THEN Exits("No recovCls were calculated by Flask.")
    ELSE LET loc == Resolve(wd, ResolveFromConfig(cfg, found.val)) IN
         IF loc \notin files THEN Fails("AssertionError")
         ELSE RecovDictOfFile(data[loc])

(***************************************************************************)
(* get_input_cls_dict                                                       *)
(***************************************************************************)

\* Lines 131-139: the loop over RecovDict.keys(), in order.  glob finds the path
\* when a file or a directory is there (the names here hold no glob wildcard).
RECURSIVE ReadInputCls(_, _, _, _, _, _, _)
ReadInputCls(d, keys, prefix, files, dirs, data, wd) ==
    IF keys = <<>> THEN Ok(d)
    ELSE LET k == Head(keys)
             loc == Resolve(wd, prefix \o k \o DotDat)
         IN  IF loc \notin files \cup dirs
             THEN ReadInputCls(d, Tail(keys), prefix, files, dirs, data, wd)
             ELSE IF loc \notin files
             THEN Fails("AssertionError")
             ELSE LET ell == Column(data[loc].rows, 1)
                      cls == Column(data[loc].rows, 2)
                  IN  ReadInputCls(DictSet(DictSet(d, EllKey, ell), k, cls),
                                   Tail(keys), prefix, files, dirs, data, wd)

\* Lines 116-141.
GetInputClsDict(cfg, lines, RecovDict, files, dirs, data, wd) ==
    LET found == SearchFlaskArgs(lines, CL_PREFIX).ret IN
    IF found.kind = "raise" THEN Fails(found.exc)
    ELSE IF found.kind = "None" THEN Exits("No input cls in the Flask config!")
    ELSE ReadInputCls(EmptyDict, DictKeys(RecovDict),
                      ResolveFromConfig(cfg, found.val), files, dirs, data, wd)

(***************************************************************************)
(* check_ell_range and plot_recov_vs_input                                  *)
(***************************************************************************)

\* ndarray.min() and ndarray.max() of a non-empty array.
SeqMin(a) == CHOOSE x \in {a[i] : i \in 1..Len(a)} : \A i \in 1..Len(a) : x <= a[i]
SeqMax(a) == CHOOSE x \in {a[i] : i \in 1..Len(a)} : \A i \in 1..Len(a) : x >= a[i]

Min2(x, y) == IF x <= y THEN x ELSE y
Max2(x, y) == IF x >= y THEN x ELSE y

\* A variant of line 150 with `or` for `and`.
CheckEllRangeEither(recovL, inputL) ==
    SeqMin(recovL) = SeqMin(inputL) \/ SeqMax(recovL) = SeqMax(inputL)

\* Line 150.
CheckEllRange(recovL, inputL) ==
    SeqMin(recovL) = SeqMin(inputL) /\ SeqMax(recovL) = SeqMax(inputL)

\* Lines 175-181.
EllMin(recovL, inputL) ==
    IF ~CheckEllRange(recovL, inputL)
    THEN Max2(SeqMin(recovL), SeqMin(inputL))
    ELSE SeqMin(recovL)

EllMax(recovL, inputL) ==
    IF ~CheckEllRange(recovL, inputL)
    THEN Min2(SeqMax(recovL), SeqMax(inputL))
    ELSE SeqMax(inputL)

\* np.arange(lo, hi): lo, lo+1, ..., hi-1.
Arange(lo, hi) == IF hi > lo THEN [i \in 1..(hi - lo) |-> lo + i - 1] ELSE <<>>

\* Line 183.
EllVec(recovL, inputL) == Arange(EllMin(recovL, inputL), EllMax(recovL, inputL) + 1)

Digits == <<"0", "1", "2", "3", "4", "5", "6", "7", "8", "9">>
DigitValue(c) == (CHOOSE i \in 1..10 : Digits[i] = c) - 1
IsNumber(s) == s # <<>> /\ \A i \in 1..Len(s) : \E d \in 1..10 : Digits[d] = s[i]

RECURSIVE IntOf(_)
IntOf(s) == IF s = <<>> THEN 0 ELSE 10 * IntOf(SubSeq(s, 1, Len(s) - 1)) + DigitValue(s[Len(s)])

\* get_nside, line 162: int() of what search_flask_args gives.
GetNside(lines) ==
    LET found == SearchFlaskArgs(lines, NSIDE).ret IN
    IF found.kind = "raise" THEN [ok |-> FALSE, exc |-> found.exc, n |-> 0]
    ELSE IF found.kind = "None" THEN [ok |-> FALSE, exc |-> "TypeError", n |-> 0]
    ELSE IF ~IsNumber(found.val) THEN [ok |-> FALSE, exc |-> "ValueError", n |-> 0]
    ELSE [ok |-> TRUE, exc |-> "", n |-> IntOf(found.val)]

\* Line 187: the test on the configured value.
PixwinRequested(found) == found = RetStr(<<"1">>)

\* Line 191: the squared entries of the pixel-window table of nside on the grid.
\* The table is the external library's; its entries stay symbolic.
PixWinSquared(nside, grid) ==
    [i \in 1..Len(grid) |-> [pixwin |-> nside, l |-> grid[i], power |-> 2]]

\* Line 193.
OnesLike(grid) == [i \in 1..Len(grid) |-> 1]

\* Lines 186-193.
PixWin2(lines, grid) ==
    LET found == SearchFlaskArgs(lines, APPLY_PIXWIN).ret IN
    IF found.kind = "raise" THEN [ok |-> FALSE, exc |-> found.exc, val |-> <<>>]
    ELSE IF PixwinRequested(found)
    THEN LET nside == GetNside(lines) IN
         IF nside.ok
         THEN [ok |-> TRUE, exc |-> "", val |-> PixWinSquared(nside.n, grid)]
         ELSE [ok |-> FALSE, exc |-> nside.exc, val |-> <<>>]
    ELSE [ok |-> TRUE, exc |-> "", val |-> OnesLike(grid)]

\* The order of the spline InterpolatedUnivariateSpline fits when none is given.
SplineOrder == 3

\* Lines 198-199: the spline needs as many y as x, more points than its order,
\* and increasing x.
SplineFits(x, y) ==
    /\ Len(x) = Len(y)
    /\ Len(x) > SplineOrder
    /\ \A i \in 1..(Len(x) - 1) : x[i] < x[i + 1]

\* Lines 197-221 for one key: "skip", "shown", or the exception raised.
PlotOne(recov, input, k) ==
    IF k = EllKey THEN "skip"
    ELSE IF ~SplineFits(DictGet(recov, EllKey), DictGet(recov, k)) THEN "ValueError"
    ELSE IF ~DictHas(input, k) THEN "KeyError"
    ELSE IF ~SplineFits(DictGet(input, EllKey), DictGet(input, k)) THEN "ValueError"
    ELSE "shown"

(***************************************************************************)
(* The run of main, one action per call                                     *)
(***************************************************************************)

\* An uncaught exception ends the process with status 1.
Crash(exc) ==
    /\ pc' = "done"
    /\ termination' = exc
    /\ exitStatus' = 1

\* sys.exit(-1), lines 85 and 122: the status is -1 modulo 256.
SysExit ==
    /\ pc' = "done"
    /\ termination' = "SystemExit"
    /\ exitStatus' = (-1) % 256

\* Line 233.
MainAssert ==
    /\ pc = "main"
    /\ IF Resolve(cwd, config) \in fsFiles
       THEN pc' = "folder" /\ UNCHANGED <<termination, exitStatus>>
       ELSE Crash("AssertionError")
    /\ UNCHANGED <<sfaVars, fsVars, cofVars, cfgLines, fsData, stdout, recovClsDict,
                   inputClsDict, hdrFields, sameRange, ell_vec, pixWin2, todo, figures>>

\* Line 237.
MainCreateFolder ==
    /\ pc = "folder"
    /\ LET r == CreateOutputFolder(config, fsDirs, fsWritable, fsFiles, cwd) IN
       /\ cofRets' = Append(cofRets, r.ret)
       /\ fsDirs' = r.dirs
       /\ IF r.ret.kind = "raise"
          THEN Crash(r.ret.exc)
          ELSE pc' = "recov" /\ UNCHANGED <<termination, exitStatus>>
    /\ UNCHANGED <<sfaVars, fsWritable, fsFiles, cwd, config, cfgLines, fsData, stdout,
                   recovClsDict, inputClsDict, hdrFields, sameRange, ell_vec, pixWin2,
                   todo, figures>>

\* Line 239.
MainGetRecov ==
    /\ pc = "recov"
    /\ LET r == GetRecovClsDict(config, cfgLines, fsFiles, fsData, cwd) IN
       /\ recovClsDict' = r.dict
       /\ stdout' = IF r.kind = "exit" THEN Append(stdout, r.msg) ELSE stdout
       /\ IF r.kind = "raise" THEN Crash(r.exc)
          ELSE IF r.kind = "exit" THEN SysExit
          ELSE pc' = "input" /\ UNCHANGED <<termination, exitStatus>>
    /\ UNCHANGED <<sfaVars, fsVars, cofVars, cfgLines, fsData, inputClsDict, hdrFields,
                   sameRange, ell_vec, pixWin2, todo, figures>>

\* Line 241.
MainGetInput ==
    /\ pc = "input"
    /\ LET r == GetInputClsDict(config, cfgLines, recovClsDict, fsFiles, fsDirs,
                                fsData, cwd) IN
       /\ inputClsDict' = r.dict
       /\ stdout' = IF r.kind = "exit" THEN Append(stdout, r.msg) ELSE stdout
       /\ IF r.kind = "raise" THEN Crash(r.exc)
          ELSE IF r.kind = "exit" THEN SysExit
          ELSE pc' = "plot" /\ UNCHANGED <<termination, exitStatus>>
    /\ UNCHANGED <<sfaVars, fsVars, cofVars, cfgLines, fsData, recovClsDict, hdrFields,
                   sameRange, ell_vec, pixWin2, todo, figures>>

\* Lines 175-193 of plot_recov_vs_input (called at line 243).
PlotSetup ==
    /\ pc = "plot"
    /\ IF ~DictHas(recovClsDict, EllKey) \/ ~DictHas(inputClsDict, EllKey)
       THEN /\ Crash("KeyError")
            /\ UNCHANGED <<sameRange, ell_vec, pixWin2, todo>>
       ELSE LET recovL == DictGet(recovClsDict, EllKey)
                inputL == DictGet(inputClsDict, EllKey)
                grid == EllVec(recovL, inputL)
                pw == PixWin2(cfgLines, grid)
            IN  /\ sameRange' = CheckEllRange(recovL, inputL)
                /\ ell_vec' = grid
                /\ pixWin2' = pw.val
                /\ IF pw.ok
                   THEN /\ pc' = "loop"
                        /\ todo' = DictKeys(recovClsDict)
                        /\ UNCHANGED <<termination, exitStatus>>
                   ELSE Crash(pw.exc) /\ UNCHANGED todo
    /\ UNCHANGED <<sfaVars, fsVars, cofVars, cfgLines, fsData, stdout, recovClsDict,
                   inputClsDict, hdrFields, figures>>

\* Lines 195-221: one pass of the loop.
PlotField ==
    /\ pc = "loop"
    /\ todo # <<>>
    /\ LET k == Head(todo)
           r == PlotOne(recovClsDict, inputClsDict, k)
       IN  /\ todo' = Tail(todo)
           /\ figures' = IF r = "shown" THEN Append(figures, k) ELSE figures
           /\ IF r \in {"skip", "shown"}
              THEN UNCHANGED <<pc, termination, exitStatus>>
              ELSE Crash(r)
    /\ UNCHANGED <<sfaVars, fsVars, cofVars, cfgLines, fsData, stdout, recovClsDict,
                   inputClsDict, hdrFields, sameRange, ell_vec, pixWin2>>

\* Line 223 and the end of main: the process ends with status 0.
PlotReturn ==
    /\ pc = "loop"
    /\ todo = <<>>
    /\ pc' = "done"
    /\ termination' = "normal"
    /\ exitStatus' = 0
    /\ UNCHANGED <<sfaVars, fsVars, cofVars, cfgLines, fsData, stdout, recovClsDict,
                   inputClsDict, hdrFields, sameRange, ell_vec, pixWin2, todo, figures>>

NextRun ==
    \/ MainAssert
    \/ MainCreateFolder
    \/ MainGetRecov
    \/ MainGetInput
    \/ PlotSetup
    \/ PlotField
    \/ PlotReturn

(***************************************************************************)
(* The calls checked on their own                                           *)
(***************************************************************************)

\* One call of search_flask_args(sfaFile, sfaArgName).
SfaCall ==
    /\ sfaPc = "call"
    /\ LET r == SearchFlaskArgs(sfaFile, sfaArgName) IN
       /\ sfaArgs' = r.args
       /\ sfaRet' = r.ret
       /\ sfaPc' = IF r.ret.kind = "raise" THEN "raised" ELSE "returned"
    /\ UNCHANGED <<sfaFile, sfaForm, sfaArgName, fsVars, cofVars, runVars>>

\* How many calls of create_output_folder a run of the folder model makes.
MaxCalls == 2

\* One call of create_output_folder(config); a call that raised ends the run.
CofCall ==
    /\ pc = "cof"
    /\ Len(cofRets) < MaxCalls
    /\ \A i \in 1..Len(cofRets) : cofRets[i].kind # "raise"
    /\ LET r == CreateOutputFolder(config, fsDirs, fsWritable, fsFiles, cwd) IN
       /\ cofRets' = Append(cofRets, r.ret)
       /\ fsDirs' = r.dirs
    /\ UNCHANGED <<sfaVars, fsWritable, fsFiles, cwd, config, runVars>>

(***************************************************************************)
(* Initial states                                                           *)
(***************************************************************************)

Root == <<>>
DirD == << <<"d">> >>
DirW == << <<"w">> >>

\* Configuration paths: in /d, in the root, relative to the working directory.
ConfigInD    == <<"/", "d", "/", "c", ".", "c", "f", "g">>
ConfigInRoot == <<"/", "c", ".", "c", "f", "g">>
ConfigHere   == <<"c", ".", "c", "f", "g">>

\* The three places the output folder of c.cfg can be.
FolderName == Tail(FolderPrefix) \o <<"c">>
FolderPlaces == {<<FolderName>>, DirD \o <<FolderName>>, DirW \o <<FolderName>>}

SfaIdle ==
    /\ sfaFile = <<>>
    /\ sfaForm = <<>>
    /\ sfaArgName = <<>>
    /\ sfaPc = "off"
    /\ sfaArgs = Unbound
    /\ sfaRet = RetNone

RunIdle ==
    /\ cfgLines = <<>>
    /\ fsData = <<>>
    /\ hdrFields = <<>>

RunFresh ==
    /\ termination = ""
    /\ exitStatus = -1
    /\ stdout = <<>>
    /\ recovClsDict = EmptyDict
    /\ inputClsDict = EmptyDict
    /\ sameRange = FALSE
    /\ ell_vec = <<>>
    /\ pixWin2 = <<>>
    /\ todo = <<>>
    /\ figures = <<>>

FsIdle ==
    /\ fsDirs = {Root}
    /\ fsWritable = {}
    /\ fsFiles = {}
    /\ cwd = Root
    /\ config = <<>>
    /\ cofRets = <<>>

\* A line `KEY:<sp1>VALUE<sp2>#<comment>` of a configuration file.
FormLine(key, sp1, value, sp2, comment) ==
    [text |-> key \o <<":">> \o sp1 \o value \o sp2 \o <<"#">> \o comment \o <<"\n">>,
     key |-> key, value |-> value, formed |-> TRUE]

\* A line that is not of that form.
RawLine(text) == [text |-> text, key |-> <<>>, value |-> <<>>, formed |-> FALSE]

NSIDE_OUT == NSIDE \o <<"_", "O", "U", "T">>

SfaValues ==
    {<<"1">>, <<"0">>, <<"0", "2">>, <<"1", "6">>, <<"a", " ", "b">>, <<"a", ":", "b">>, <<>>}

SfaLines ==
    {FormLine(k, <<" ">>, v, <<" ">>, <<" ", "x">>) :
        k \in {NSIDE, APPLY_PIXWIN, NSIDE_OUT}, v \in SfaValues}
    \cup {FormLine(NSIDE, <<"\t">>, <<"8">>, <<"\t", " ">>, <<" ", "n", ":", "8">>),
          FormLine(APPLY_PIXWIN, <<>>, <<"1">>, <<>>, <<>>),
          RawLine(NSIDE \o <<" ", "4", "\n">>),
          RawLine(APPLY_PIXWIN \o <<":", " ", "1", "\n">>)}

\* The longest configuration file of the search_flask_args model.
MaxLines == 2

SfaFiles == UNION {[1..n -> SfaLines] : n \in 1..MaxLines}

InitArgs ==
    /\ \E f \in SfaFiles :
          /\ sfaForm = f
          /\ sfaFile = [i \in 1..Len(f) |-> f[i].text]
    /\ sfaArgName \in {NSIDE, APPLY_PIXWIN}
    /\ sfaPc = "call"
    /\ sfaArgs = Unbound
    /\ sfaRet = RetNone
    /\ FsIdle /\ RunIdle /\ RunFresh
    /\ pc = "off"

NextArgs == SfaCall

SpecArgs == InitArgs /\ [][NextArgs]_vars

InitFolder ==
    /\ config \in {ConfigInD, ConfigInRoot, ConfigHere}
    /\ cwd \in {Root, DirD, DirW}
    /\ \E made \in SUBSET FolderPlaces :
          /\ fsDirs = {Root, DirD, DirW} \cup made
          /\ fsFiles \in SUBSET (FolderPlaces \ made)
    /\ fsWritable \in SUBSET {Root, DirD, DirW}
    /\ cofRets = <<>>
    /\ SfaIdle /\ RunIdle /\ RunFresh
    /\ pc = "cof"

NextFolder == CofCall

SpecFolder == InitFolder /\ [][NextFolder]_vars

(***************************************************************************)
(* Initial states of the run of main and of its parts                       *)
(***************************************************************************)

\* A configuration line as Flask writes it: `KEY: VALUE # comment`.
CfgLine(key, value) == key \o <<":", " ">> \o value \o <<" ", "#", " ", "x", "\n">>

RecovValue  == <<"r", ".", "d", "a", "t">>
PrefixValue == <<"p">>
FieldA      == <<"a">>
FieldB      == <<"b">>

ConfigPlace   == Resolve(Root, ConfigInD)
RecovPlace    == DirD \o <<RecovValue>>
InputPlace(k) == DirD \o <<PrefixValue \o k \o DotDat>>

RECURSIVE JoinWith(_, _)
JoinWith(fields, sep) ==
    IF Len(fields) = 1 THEN fields[1]
    ELSE fields[1] \o sep \o JoinWith(Tail(fields), sep)

\* The header line of a RecovCls file: the marker, then the field names.
HeaderLine(fields, gap, sep) == <<"#">> \o gap \o JoinWith(fields, sep) \o <<"\n">>

\* A table whose columns differ from one another, the first holding ells.
TableOf(ells, ncols) ==
    [i \in 1..Len(ells) |-> [j \in 1..ncols |-> IF j = 1 THEN ells[i] ELSE 10 * j + i]]

RecovFileOf(fields, gap, sep, ells) ==
    [header |-> HeaderLine(fields, gap, sep), matrix |-> TableOf(ells, Len(fields)),
     fields |-> fields]

InputFileOf(ells) == [rows |-> TableOf(ells, 2)]

NoFile == [absent |-> TRUE]

EllA == <<2, 3, 4, 5>>
EllB == <<1, 2, 3, 4, 5, 6>>
EllShort == <<2, 3>>

OptionalLine(key, values) == {<<>>} \cup {<<CfgLine(key, v)>> : v \in values}

\* The file system of a run: the configuration in /d, the process in /w.
RunFiles(hasConfig, recov, inA, inB, inL) ==
    LET places == {RecovPlace : x \in {recov} \ {NoFile}}
                  \cup {InputPlace(FieldA) : x \in {inA} \ {NoFile}}
                  \cup {InputPlace(FieldB) : x \in {inB} \ {NoFile}}
                  \cup {InputPlace(EllKey) : x \in {inL} \ {NoFile}}
    IN  /\ fsData = [q \in places |-> IF q = RecovPlace THEN recov
                                      ELSE IF q = InputPlace(FieldA) THEN inA
                                      ELSE IF q = InputPlace(FieldB) THEN inB
                                      ELSE inL]
        /\ fsFiles = places \cup {ConfigPlace : x \in {hasConfig} \ {FALSE}}
        /\ fsDirs = {Root, DirD, DirW}
        /\ cwd = DirW
        /\ config = ConfigInD
        /\ cofRets = <<>>

InitMain ==
    /\ \E r \in OptionalLine(RECOVCLS_OUT, {<<"0">>, RecovValue}),
          c \in OptionalLine(CL_PREFIX, {<<"0">>, PrefixValue}),
          a \in OptionalLine(APPLY_PIXWIN, {<<"0">>, <<"1">>}) :
          cfgLines = r \o c \o <<CfgLine(NSIDE, <<"2">>)>> \o a
    /\ \E recov \in {NoFile} \cup
                {RecovFileOf(f, <<" ">>, <<" ">>, e) :
                    f \in {<<EllKey, ClDash \o FieldA>>,
                           <<EllKey, ClDash \o FieldA, ClDash \o FieldB>>},
                    e \in {EllA, EllB}},
          inA \in {NoFile, InputFileOf(EllA), InputFileOf(EllB)},
          inB \in {NoFile, InputFileOf(EllA), InputFileOf(EllShort)},
          inL \in {NoFile, InputFileOf(EllA)},
          hasConfig \in BOOLEAN :
          /\ RunFiles(hasConfig, recov, inA, inB, inL)
          /\ hdrFields = IF recov = NoFile THEN <<>> ELSE recov.fields
    /\ fsWritable \in SUBSET {Root, DirW}
    /\ pc = "main"
    /\ SfaIdle /\ RunFresh

SpecMain == InitMain /\ [][NextRun]_vars

\* Field names a RecovCls header may carry.
HeaderFieldNames ==
    {EllKey, FieldA, ClDash \o FieldA, ClDash \o FieldB, ClDash \o FieldA \o ClDash \o FieldB}

\* The most fields, and the most data rows, of a RecovCls file of the loader model.
MaxFields == 3
MaxRows == 2

InitRecov ==
    /\ \E n \in 1..MaxFields, rows \in 1..MaxRows :
       \E f \in [1..n -> HeaderFieldNames], gap \in {<<" ">>, <<>>},
          sep \in {<<" ">>, <<" ", " ">>} :
          /\ RunFiles(TRUE, RecovFileOf(f, gap, sep, [i \in 1..rows |-> i + 1]),
                      NoFile, NoFile, NoFile)
          /\ hdrFields = f
    /\ cfgLines = <<CfgLine(RECOVCLS_OUT, RecovValue), CfgLine(CL_PREFIX, PrefixValue)>>
    /\ fsWritable = {Root, DirW}
    /\ pc = "recov"
    /\ SfaIdle /\ RunFresh

NextRecov == MainGetRecov

SpecRecov == InitRecov /\ [][NextRecov]_vars

\* The largest ell, and the longest 'l' array, of the range model.
MaxEll == 3
MaxEllLen == 3

\* The arrays of the example: recovered 2..100, input 1..150.
ExampleRecovL == Arange(2, 101)
ExampleInputL == Arange(1, 151)

EllArrays == UNION {[1..n -> 1..MaxEll] : n \in 1..MaxEllLen}

InitEll ==
    /\ \E a \in EllArrays \cup {ExampleRecovL}, b \in EllArrays \cup {ExampleInputL} :
          /\ recovClsDict = <<[k |-> EllKey, v |-> a]>>
          /\ inputClsDict = <<[k |-> EllKey, v |-> b]>>
    /\ cfgLines = <<CfgLine(APPLY_PIXWIN, <<"0">>)>>
    /\ fsData = <<>>
    /\ hdrFields = <<>>
    /\ FsIdle /\ SfaIdle
    /\ pc = "plot"
    /\ termination = ""
    /\ exitStatus = -1
    /\ stdout = <<>>
    /\ sameRange = FALSE
    /\ ell_vec = <<>>
    /\ pixWin2 = <<>>
    /\ todo = <<>>
    /\ figures = <<>>

NextEll == PlotSetup \/ PlotField \/ PlotReturn

SpecEll == InitEll /\ [][NextEll]_vars

(***************************************************************************)
(* Properties of search_flask_args (under SpecArgs)                         *)
(***************************************************************************)

\* C3: when the first line containing argName has the form `KEY: VALUE # comment`
\* and VALUE is not empty and does not start with '0', search_flask_args returns
\* exactly VALUE, the whole text between the ':' and the '#' without the
\* surrounding whitespace.
C3_ReturnsExactValue ==
    sfaPc # "call" =>
        LET i == FirstMatch(sfaFile, sfaArgName) IN
        (i > 0 /\ sfaForm[i].formed /\ sfaForm[i].value # <<>>
               /\ sfaForm[i].value[1] # "0")
            => sfaRet = RetStr(sfaForm[i].value)

\* C9: whenever the extracted value starts with '0' the call returns None, and for
\* an extracted value that starts with another character it returns that value.
C9_ZeroIsAbsent ==
    (sfaPc # "call" /\ sfaArgs # Unbound /\ sfaArgs # <<>>) =>
        /\ sfaPc = "returned"
        /\ sfaArgs[1] = "0" => sfaRet = RetNone
        /\ sfaArgs[1] # "0" => sfaRet = RetStr(sfaArgs)

\* C9's case: a value longer than "0" that starts with '0' was extracted and None returned.
C9_Witness ==
    sfaPc = "returned" /\ sfaArgs = <<"0", "2">> /\ sfaRet = RetNone

(***************************************************************************)
(* Properties of create_output_folder (under SpecFolder)                    *)
(***************************************************************************)

\* Where the folder next to the configuration file is.
SiblingPlace == Resolve(cwd, DirName(config)) \o <<Tail(NewFolderName(config))>>

\* C7: after a call, whenever the folder next to the configuration file exists or
\* can be created there, that folder is the one returned and it exists; the folder
\* in the working directory is returned only when creation next to the
\* configuration file fails.
C7_FolderNextToConfig ==
    (Len(cofRets) >= 1 /\ (\/ SiblingPlace \in fsDirs
                           \/ /\ SiblingPlace \notin fsFiles
                              /\ Parent(SiblingPlace) \in fsDirs
                              /\ Parent(SiblingPlace) \in fsWritable)) =>
        /\ cofRets[1].kind = "str"
        /\ Resolve(cwd, cofRets[1].val) = SiblingPlace
        /\ SiblingPlace \in fsDirs

C4_RangeAndGrid ==
    (pc \in {"loop", "done"} /\ termination \in {"", "normal"}) =>
        LET recovL == DictGet(recovClsDict, EllKey)
            inputL == DictGet(inputClsDict, EllKey)
            lo == Max2(SeqMin(recovL), SeqMin(inputL))
            hi == Min2(SeqMax(recovL), SeqMax(inputL))
        IN  /\ sameRange <=> (SeqMin(recovL) = SeqMin(inputL) /\ SeqMax(recovL) = SeqMax(inputL))
            /\ ell_vec = IF hi >= lo THEN [i \in 1..(hi - lo + 1) |-> lo + i - 1] ELSE <<>>

\* C4's case: recovered 2..100 against input 1..150 gave false and the grid 2..100.
C4_Witness ==
    /\ pc = "loop"
    /\ DictGet(recovClsDict, EllKey) = ExampleRecovL
    /\ DictGet(inputClsDict, EllKey) = ExampleInputL
    /\ sameRange = FALSE
    /\ Len(ell_vec) = 99 /\ ell_vec[1] = 2 /\ ell_vec[99] = 100

(***************************************************************************)
(* Properties of get_recov_cls_dict (under SpecRecov)                       *)
(***************************************************************************)

\* A header name without its leading `Cl-`.
WithoutClPrefix(f) == IF StartsWith(f, ClDash) THEN SubSeq(f, Len(ClDash) + 1, Len(f)) ELSE f

\* C6: for a file whose header names n fields after `# ` and whose table has n
\* columns (here at least two columns and two rows, the names carrying `Cl-` only
\* in front and differing once it is off), get_recov_cls_dict returns a mapping of exactly n entries, the i-th
\* header name without its leading `Cl-` mapped to the i-th column of the table.
C6_HeaderToColumns ==
    (pc # "recov" /\ fsData[RecovPlace].header[2] = " "
                  /\ Len(hdrFields) >= 2 /\ Len(fsData[RecovPlace].matrix) >= 2
                  /\ \A n \in 1..Len(hdrFields) :
                        ~Contains(WithoutClPrefix(hdrFields[n]), ClDash)
                  /\ \A i, j \in 1..Len(hdrFields) :
                        i # j => WithoutClPrefix(hdrFields[i]) # WithoutClPrefix(hdrFields[j])) =>
        /\ termination = ""
        /\ Len(recovClsDict) = Len(hdrFields)
        /\ \A i \in 1..Len(hdrFields) :
              /\ recovClsDict[i].k = WithoutClPrefix(hdrFields[i])
              /\ recovClsDict[i].v = Column(fsData[RecovPlace].matrix, i)

(***************************************************************************)
(* Properties of the run of main (under SpecMain)                           *)
(***************************************************************************)

KeyAbsent(key) == \A i \in 1..Len(cfgLines) : ~Contains(cfgLines[i], key)

\* The run got as far as calling get_recov_cls_dict / get_input_cls_dict.
ReachedRecov == pc \notin {"main", "folder", "recov"} /\ Len(cofRets) = 1
                    /\ cofRets[1].kind = "str"
ReachedInput == ReachedRecov /\ pc # "input" /\ recovClsDict # EmptyDict

\* C1: when the configuration has no RECOVCLS_OUT line (no CL_PREFIX line), the
\* run that reaches the loader ends by its early exit: the loader's diagnostic is
\* printed and the status is not zero, and no exception ends it.
C1_AbsentKeyExits ==
    /\ (ReachedRecov /\ KeyAbsent(RECOVCLS_OUT)) =>
          /\ termination = "SystemExit"
          /\ exitStatus # 0
          /\ stdout = <<"No recovCls were calculated by Flask.">>
    /\ (ReachedInput /\ KeyAbsent(CL_PREFIX)) =>
          /\ termination = "SystemExit"
          /\ exitStatus # 0
          /\ stdout = <<"No input cls in the Flask config!">>

InputPlaces == {InputPlace(FieldA), InputPlace(FieldB), InputPlace(EllKey)}

\* The fields, other than 'l', that have an input file, in header order.
MatchedFields ==
    SelectSeq([i \in 1..Len(hdrFields) |-> WithoutClPrefix(hdrFields[i])],
              LAMBDA f : f # EllKey /\ InputPlace(f) \in fsFiles)

\* The configuration, the RecovCls file and the folder are in order, and the input
\* files found are proper ones on one common ell grid.
ValidRun ==
    /\ ConfigPlace \in fsFiles
    /\ RecovPlace \in fsFiles
    /\ fsWritable # {}
    /\ \E i \in 1..Len(cfgLines) : cfgLines[i] = CfgLine(RECOVCLS_OUT, RecovValue)
    /\ \E i \in 1..Len(cfgLines) : cfgLines[i] = CfgLine(CL_PREFIX, PrefixValue)
    /\ \E i \in 1..Len(cfgLines) : cfgLines[i] = CfgLine(APPLY_PIXWIN, <<"0">>)
    /\ InputPlace(EllKey) \notin fsFiles
    /\ MatchedFields # <<>>
    /\ \A q \in InputPlaces \cap fsFiles :
          /\ Len(fsData[q].rows) > SplineOrder
          /\ \A r \in InputPlaces \cap fsFiles : fsData[q].rows = fsData[r].rows

\* C2: a valid run in which some field has no input file still ends normally, with
\* status 0, having shown one figure for each field that has an input file.
C2_MissingInputIsSkipped ==
    (pc = "done" /\ ValidRun) =>
        /\ termination = "normal"
        /\ exitStatus = 0
        /\ figures = MatchedFields

WellFormed(d) ==
    /\ DictHas(d, EllKey)
    /\ \A i \in 1..Len(d) : Len(d[i].v) = Len(DictGet(d, EllKey))

\* C5: the dictionary each loader returns has the key 'l' and every value in it
\* is as long as its 'l', whatever input files are found.
C5_DictsWellFormed ==
    /\ pc \in {"input", "plot"} => WellFormed(recovClsDict)
    /\ pc = "plot" => WellFormed(inputClsDict)

\* The run got past the 'l' lookups of check_ell_range (line 150).
ReachedPixwin ==
    /\ pc \in {"loop", "done"}
    /\ ReachedInput
    /\ DictHas(recovClsDict, EllKey)
    /\ DictHas(inputClsDict, EllKey)

\* C10: the correction is the squared pixel window of NSIDE on the grid exactly
\* when APPLY_PIXWIN is configured as 1; otherwise, also with APPLY_PIXWIN 0 and
\* with no APPLY_PIXWIN line, it is 1 at every ell and the plotting goes on.
C10_PixwinOnlyWhenOne ==
    ReachedPixwin =>
        IF \E i \in 1..Len(cfgLines) : cfgLines[i] = CfgLine(APPLY_PIXWIN, <<"1">>)
        THEN pixWin2 = PixWinSquared(2, ell_vec)
        ELSE /\ pixWin2 = OnesLike(ell_vec)
             /\ termination # "UnboundLocalError"

====
